---- MODULE Spec2Model ----
(***************************************************************************)
(* Model of src/src/audit.js: the heuristic risk audit of a Solana program *)
(* or transaction.  Every invocation of audit() is a process that runs     *)
(* synchronously between the awaits on the shared connection; one action   *)
(* is one such synchronous stretch.                                        *)
(*                                                                         *)
(* Lamport amounts are counted in units of 10^9 lamports (the source       *)
(* writes its thresholds as 1000 * 1e9 and 100 * 1e9), times in seconds.   *)
(***************************************************************************)
EXTENDS Integers, Sequences, FiniteSets

(***************************************************************************)
(* Bounds of the model.                                                    *)
(***************************************************************************)
NumInvocations == 2      \* concurrent audit() calls in SpecConc
MaxBalances == 1         \* longest preBalances / postBalances
MaxLogs == 2             \* longest logMessages

(***************************************************************************)
(* JavaScript values.  null / undefined is the empty sequence, a present   *)
(* value x is <<x>>.                                                       *)
(***************************************************************************)
None == <<>>
Some(x) == <<x>>
IsSome(o) == o # <<>>
Val(o) == o[1]

SeqsUpTo(S, n) == UNION {[1..k -> S] : k \in 0..n}

(***************************************************************************)
(* Program constants.                                                      *)
(***************************************************************************)
TOTAL_RISK_SCORE == 10
SmallProgramSize == 100      \* programInfo.data.length < 100
OneDay == 86400              \* seconds
FrequencyLimit == 100        \* txFrequency > 100
LargeBalance == 1000         \* balance > 1000 * 1e9, in units of 1e9 lamports
ManyInstructions == 5        \* instructionsLength > 5
LargeShift == 100            \* Math.abs(change) > 100 * 1e9, in units of 1e9

(***************************************************************************)
(* Inputs: subject types, identifiers and collaborator responses.          *)
(***************************************************************************)
Procs == 1..NumInvocations

Types == {"program", "transaction", "token"}

ProgramExample == "9xQeWvG816bUx9EPjHmaT23yvVM2ZWbrrpZb9PusVFin"
TxExample ==
  "5m8iahwGDcGcBRUwbPUo6SRTSnJm4htgAjcL8bmCudcmButCcG9JHhBdArrYJMyaud1NMYdUpAMfme8BcWfF79W4"
Identifiers == {ProgramExample, TxExample}

\* new PublicKey(id) throws unless id decodes to 32 bytes; the 88-character
\* transaction signature does not.
IsPublicKey(id) == id = ProgramExample

ErrorMessages == {"fetch failed", "429 Too Many Requests"}

AccountInfos ==
  [dataLength : {99, 100}, executable : BOOLEAN, rentEpoch : {0, 361}]

BlockTimes == {None} \cup {Some(t) : t \in {361, 86400, 86761}}

SignatureCounts == {0, 100, 1000}       \* limit: 1000

Balances == {0, 1000, 1001}

TxBalances == {0, 100, 101}

LogLines ==
  { <<"Program", "invoke">>, <<"Program", "failed">>,
    <<"custom", "error">>, <<"Error", "Invalid">> }

Metas ==
  [preBalances : SeqsUpTo(TxBalances, MaxBalances),
   postBalances : SeqsUpTo(TxBalances, MaxBalances),
   err : BOOLEAN,
   logMessages : {None} \cup {Some(l) : l \in SeqsUpTo(LogLines, MaxLogs)}]

Transactions ==
  [instructions : {None, Some(5), Some(6)},
   signatures : {Some(1), Some(2)},
   meta : {None} \cup {Some(m) : m \in Metas}]

(***************************************************************************)
(* Pure helpers of the source.                                             *)
(***************************************************************************)
Abs(n) == IF n < 0 THEN -n ELSE n

\* Math.round of the quotient num / den (den > 0): nearest integer, halves up.
MathRound(num, den) == (2 * num + den) \div (2 * den)

Digit(d) ==
  CASE d = 0 -> "0" [] d = 1 -> "1" [] d = 2 -> "2" [] d = 3 -> "3"
    [] d = 4 -> "4" [] d = 5 -> "5" [] d = 6 -> "6" [] d = 7 -> "7"
    [] d = 8 -> "8" [] d = 9 -> "9"

RECURSIVE Digits(_)
Digits(n) == IF n < 10 THEN Digit(n) ELSE Digits(n \div 10) \o Digit(n % 10)

\* Number.prototype.toString of an integer.
toString(n) == IF n < 0 THEN "-" \o Digits(-n) ELSE Digits(n)

toScorePct(riskScore) ==
  LET temp == TOTAL_RISK_SCORE - riskScore
  IN  toString(MathRound(temp * 100, TOTAL_RISK_SCORE))

getRiskLevel(riskScore) ==
  IF riskScore > 7 THEN "High Risk"
  ELSE IF riskScore > 4 THEN "Moderate Risk"
  ELSE IF riskScore > 2 THEN "Low Risk"
  ELSE "Very Low Risk"

getRiskDesc(riskScore) ==
  IF riskScore > 7 THEN "Careful review strongly recommended."
  ELSE IF riskScore > 4 THEN "Further review recommended."
  ELSE IF riskScore > 2 THEN "Not many issues, but exercise caution."
  ELSE "Seems safe, but always verify."

\* One rule of the engine: if (cond) { riskScore += weight; warnings.push(w) }
\* applied to the pair st = [riskScore, warnings].
Rule(st, cond, weight, warning) ==
  IF cond
    THEN [riskScore |-> st.riskScore + weight,
          warnings |-> Append(st.warnings, warning)]
    ELSE st

\* log.includes(word): a log line is its sequence of words.
Includes(log, word) == \E i \in 1..Len(log) : log[i] = word

(***************************************************************************)
(* State.  pc is the await an invocation is suspended at ("idle" before    *)
(* the call, "done" after the return).  riskScore and warnings are the     *)
(* locals of auditProgram / auditTransaction, stored per activation frame; *)
(* the remaining variables are the other locals of the invocation.  calls  *)
(* and thrown record the requests an invocation has sent on the connection *)
(* and the requests that were rejected.                                    *)
(***************************************************************************)
VARIABLES pc, type, input, riskScore, warnings, programInfo, blockTime,
          recentSignatures, balance, transaction, calls, thrown, result

vars == <<pc, type, input, riskScore, warnings, programInfo, blockTime,
          recentSignatures, balance, transaction, calls, thrown, result>>

\* The activation frame that holds the locals `let riskScore`, `let warnings`
\* of invocation p: each call of the function has its own.
SharedFrame(p) == 1
Frame(p) == p

Here(p) == [riskScore |-> riskScore[Frame(p)], warnings |-> warnings[Frame(p)]]

\* The normal return of audit(): the object literal of lines 219-225.
AuditResult(id, st) ==
  [id |-> id,
   trustScore |-> toScorePct(st.riskScore),
   riskLevel |-> getRiskLevel(st.riskScore),
   riskDesc |-> getRiskDesc(st.riskScore),
   warnings |-> st.warnings]

\* The catch block of audit() rethrowing instead of returning.
AuditRethrows(id, message) == [error |-> "Audit failed: " \o message]

\* The catch block of audit(): the object literal of lines 228-234.
AuditFailed(id, message) ==
  [id |-> id,
   trustScore |-> "0",
   riskLevel |-> "High Risk",
   riskDesc |-> "Error occurred during audit",
   warnings |-> <<"Audit failed: " \o message>>]

\* The message of the Error thrown at lines 214-216.
InvalidType == "Invalid audit type. Use \"program\" or \"transaction\"."

\* The catch blocks of auditProgram and auditTransaction.
Escalate(st, prefix, message) ==
  [riskScore |-> 10, warnings |-> Append(st.warnings, prefix \o message)]

\* Store the locals and stay suspended at the next await.
Suspend(p, st, call) ==
  /\ riskScore' = [riskScore EXCEPT ![Frame(p)] = st.riskScore]
  /\ warnings' = [warnings EXCEPT ![Frame(p)] = st.warnings]
  /\ calls' = [calls EXCEPT ![p] = Append(@, call)]
  /\ pc' = [pc EXCEPT ![p] = call]
  /\ UNCHANGED result

\* return { riskScore, warnings } to audit(id), which returns its result.
Return(p, id, st) ==
  /\ riskScore' = [riskScore EXCEPT ![Frame(p)] = st.riskScore]
  /\ warnings' = [warnings EXCEPT ![Frame(p)] = st.warnings]
  /\ result' = [result EXCEPT ![p] = Some(AuditResult(id, st))]
  /\ pc' = [pc EXCEPT ![p] = "done"]
  /\ UNCHANGED calls

\* let riskScore = 0; let warnings = [];
Fresh == [riskScore |-> 0, warnings |-> <<>>]

\* if (!programInfo) / if (!transaction): riskScore += 10; push; return
NotFound(st, warning) == Rule(st, TRUE, 10, warning)

InitOf(running) ==
  /\ pc = [p \in Procs |-> IF p \in running THEN "idle" ELSE "unused"]
  /\ type = [p \in Procs |-> "program"]
  /\ input = [p \in Procs |-> ProgramExample]
  /\ riskScore = [p \in Procs |-> 0]
  /\ warnings = [p \in Procs |-> <<>>]
  /\ programInfo = [p \in Procs |-> None]
  /\ blockTime = [p \in Procs |-> None]
  /\ recentSignatures = [p \in Procs |-> 0]
  /\ balance = [p \in Procs |-> 0]
  /\ transaction = [p \in Procs |-> None]
  /\ calls = [p \in Procs |-> <<>>]
  /\ thrown = [p \in Procs |-> <<>>]
  /\ result = [p \in Procs |-> None]

\* One audit() call.
Init == InitOf({1})

\* NumInvocations audit() calls made without awaiting one another.
InitConc == InitOf(Procs)

(***************************************************************************)
(* audit(type, input) up to its first await.                               *)
(***************************************************************************)
Audit(p, t, id) ==
  /\ pc[p] = "idle"
  /\ type' = [type EXCEPT ![p] = t]
  /\ input' = [input EXCEPT ![p] = id]
  /\ UNCHANGED <<programInfo, blockTime, recentSignatures, balance,
                 transaction, thrown>>
  /\ CASE t = "program" ->
            IF IsPublicKey(id)
              THEN Suspend(p, Fresh, "getAccountInfo")
              \* new PublicKey throws inside getProgramInfo, which returns null
              ELSE Return(p, id, NotFound(Fresh, "Program not found"))
       [] t = "transaction" -> Suspend(p, Fresh, "getTransaction")
       [] OTHER ->
            /\ result' = [result EXCEPT ![p] = Some(AuditFailed(id, InvalidType))]
            /\ pc' = [pc EXCEPT ![p] = "done"]
            /\ UNCHANGED <<riskScore, warnings, calls>>

(***************************************************************************)
(* auditProgram: the stretches between its awaits.                         *)
(***************************************************************************)
\* 2. Dimensione del programma
SizeRule(st, info) ==
  Rule(st, info.dataLength < SmallProgramSize, 2, "Very small program size")

\* 3. Eseguibilita
ExecutableRule(st, info) ==
  Rule(st, ~info.executable, 3, "Program is not executable")

\* The existence check without its return: programInfo.data of null throws
\* a TypeError, which the catch of auditProgram escalates.
AccountInfoReturnsNoReturn(p, info) ==
  /\ pc[p] = "getAccountInfo"
  /\ programInfo' = [programInfo EXCEPT ![p] = info]
  /\ UNCHANGED <<type, input, blockTime, recentSignatures, balance,
                 transaction, thrown>>
  /\ IF ~IsSome(info)
       THEN Return(p, input[p],
                   Escalate(NotFound(Here(p), "Program not found"),
                            "Error auditing program: ",
                            "Cannot read properties of null (reading 'data')"))
       ELSE Suspend(p, ExecutableRule(SizeRule(Here(p), Val(info)), Val(info)),
                    "getSlot")

\* getAccountInfo resolves with info (null or an account): rules 1 to 3.
AccountInfoReturns(p, info) ==
  /\ pc[p] = "getAccountInfo"
  /\ programInfo' = [programInfo EXCEPT ![p] = info]
  /\ UNCHANGED <<type, input, blockTime, recentSignatures, balance,
                 transaction, thrown>>
  /\ IF ~IsSome(info)
       THEN Return(p, input[p], NotFound(Here(p), "Program not found"))
       ELSE Suspend(p, ExecutableRule(SizeRule(Here(p), Val(info)), Val(info)),
                    "getSlot")

\* getAccountInfo rejects: getProgramInfo catches, logs and returns null.
AccountInfoThrows(p, message) ==
  /\ pc[p] = "getAccountInfo"
  /\ thrown' = [thrown EXCEPT ![p] =
                  Append(@, [call |-> "getAccountInfo", message |-> message])]
  /\ UNCHANGED <<type, input, programInfo, blockTime, recentSignatures,
                 balance, transaction>>
  /\ Return(p, input[p], NotFound(Here(p), "Program not found"))

\* getSlot resolves; the slot is only handed on to getBlockTime.
SlotReturns(p) ==
  /\ pc[p] = "getSlot"
  /\ UNCHANGED <<type, input, programInfo, blockTime, recentSignatures,
                 balance, transaction, thrown>>
  /\ Suspend(p, Here(p), "getBlockTime")

\* blockTime - programInfo.rentEpoch; a null blockTime converts to 0.
ProgramAge(bt, info) == (IF IsSome(bt) THEN Val(bt) ELSE 0) - info.rentEpoch

\* 4. Eta del programma
AgeRule(st, programAge) ==
  Rule(st, programAge < OneDay, 2, "Very recent program")

\* getBlockTime resolves with bt (null or seconds): rule 4.
BlockTimeReturns(p, bt) ==
  /\ pc[p] = "getBlockTime"
  /\ blockTime' = [blockTime EXCEPT ![p] = bt]
  /\ UNCHANGED <<type, input, programInfo, recentSignatures, balance,
                 transaction, thrown>>
  /\ Suspend(p, AgeRule(Here(p), ProgramAge(bt, Val(programInfo[p]))),
             "getSignaturesForAddress")

\* recentSignatures.length / (programAge / 86400), an IEEE-754 quotient:
\* 0/0 is NaN, n/0 is Infinity, otherwise the exact rational num / den.
TxFrequency(length, programAge) ==
  IF programAge = 0
    THEN [kind |-> IF length = 0 THEN "NaN" ELSE "Infinity", num |-> 0, den |-> 1]
    ELSE IF programAge > 0
      THEN [kind |-> "finite", num |-> length * OneDay, den |-> programAge]
      ELSE [kind |-> "finite", num |-> -(length * OneDay), den |-> -programAge]

\* txFrequency > limit (den > 0 in a finite quotient).
Exceeds(f, limit) ==
  CASE f.kind = "NaN" -> FALSE
    [] f.kind = "Infinity" -> TRUE
    [] OTHER -> f.num > limit * f.den

\* 5. Frequenza delle transazioni
FrequencyRule(st, length, programAge) ==
  LET txFrequency == TxFrequency(length, programAge)
  IN  Rule(st, Exceeds(txFrequency, FrequencyLimit),
           1, "High transaction frequency")

\* getSignaturesForAddress resolves with an array of the given length: rule 5.
SignaturesReturn(p, length) ==
  /\ pc[p] = "getSignaturesForAddress"
  /\ recentSignatures' = [recentSignatures EXCEPT ![p] = length]
  /\ UNCHANGED <<type, input, programInfo, blockTime, balance, transaction,
                 thrown>>
  /\ Suspend(p, FrequencyRule(Here(p), length,
                               ProgramAge(blockTime[p], Val(programInfo[p]))),
             "getBalance")

\* 6. Saldo del programma
BalanceRule(st, b) ==
  Rule(st, b > LargeBalance, 2, "Very high program balance")

\* getBalance resolves: rule 6, then return.
BalanceReturns(p, b) ==
  /\ pc[p] = "getBalance"
  /\ balance' = [balance EXCEPT ![p] = b]
  /\ UNCHANGED <<type, input, programInfo, blockTime, recentSignatures,
                 transaction, thrown>>
  /\ Return(p, input[p], BalanceRule(Here(p), b))

\* An await of auditProgram's try block rejects: the catch of lines 97-101.
ProgramCallThrows(p, message) ==
  /\ pc[p] \in {"getSlot", "getBlockTime", "getSignaturesForAddress",
                "getBalance"}
  /\ thrown' = [thrown EXCEPT ![p] =
                  Append(@, [call |-> pc[p], message |-> message])]
  /\ UNCHANGED <<type, input, programInfo, blockTime, recentSignatures,
                 balance, transaction>>
  /\ Return(p, input[p],
            Escalate(Here(p), "Error auditing program: ", message))

(***************************************************************************)
(* auditTransaction.                                                       *)
(***************************************************************************)
\* The filter comparing with >= instead of >.
LargeBalanceChangesGe(meta) ==
  Cardinality({i \in 1..Len(meta.postBalances) :
                 Abs(meta.postBalances[i]
                       - (IF i <= Len(meta.preBalances)
                            THEN meta.preBalances[i] ELSE 0)) >= LargeShift})

\* transaction.meta.preBalances[index] || 0
PreBalance(meta, index) ==
  IF index <= Len(meta.preBalances) /\ meta.preBalances[index] # 0
    THEN meta.preBalances[index]
    ELSE 0

\* postBalances.map((post, index) => post - (preBalances[index] || 0))
BalanceChanges(meta) ==
  [index \in 1..Len(meta.postBalances) |->
     meta.postBalances[index] - PreBalance(meta, index)]

\* balanceChanges.filter((change) => Math.abs(change) > 100 * 1e9).length
LargeBalanceChanges(meta) ==
  LET balanceChanges == BalanceChanges(meta)
  IN  Cardinality({i \in 1..Len(balanceChanges) :
                     Abs(balanceChanges[i]) > LargeShift})

\* logMessages.filter(log => log.includes('error') || ... ).length
SuspiciousLogs(logMessages) ==
  Cardinality({i \in 1..Len(logMessages) :
                 \/ Includes(logMessages[i], "error")
                 \/ Includes(logMessages[i], "failed")
                 \/ Includes(logMessages[i], "invalid")})

\* The rules of lines 125-195 on a found transaction tx, from the pair st.
TransactionRules(st, tx) ==
  LET meta == tx.meta
      s1 == Rule(st, IsSome(tx.instructions)
                       /\ Val(tx.instructions) > ManyInstructions,
                 2, "Transaction with many instructions")
      s2 == Rule(s1, IsSome(tx.signatures) /\ Val(tx.signatures) > 1,
                 2, "Transaction with multiple signers")
      s4 == Rule(s2, IsSome(meta) /\ LargeBalanceChanges(Val(meta)) > 0,
                 3, "Transaction with large balance shifts")
      s5 == Rule(s4, IsSome(meta) /\ Val(meta).err,
                 3, "Transaction simulation failed")
      s6 == Rule(s5, /\ IsSome(meta)
                     /\ IsSome(Val(meta).logMessages)
                     /\ SuspiciousLogs(Val(Val(meta).logMessages)) > 0,
                 2, "Suspicious log messages detected")
  IN  s6

\* getTransaction resolves with tx (null or a transaction).
TransactionReturns(p, tx) ==
  /\ pc[p] = "getTransaction"
  /\ transaction' = [transaction EXCEPT ![p] = tx]
  /\ UNCHANGED <<type, input, programInfo, blockTime, recentSignatures,
                 balance, thrown>>
  /\ IF ~IsSome(tx)
       THEN Return(p, input[p], NotFound(Here(p), "Transaction not found"))
       ELSE Return(p, input[p], TransactionRules(Here(p), Val(tx)))

\* getTransaction rejects: the catch of lines 196-200.
TransactionThrows(p, message) ==
  /\ pc[p] = "getTransaction"
  /\ thrown' = [thrown EXCEPT ![p] =
                  Append(@, [call |-> "getTransaction", message |-> message])]
  /\ UNCHANGED <<type, input, programInfo, blockTime, recentSignatures,
                 balance, transaction>>
  /\ Return(p, input[p],
            Escalate(Here(p), "Error processing transaction: ", message))

(***************************************************************************)
(* Specifications.                                                         *)
(***************************************************************************)
\* The inputs and collaborator responses of a specification.
AllInputs ==
  [types |-> Types, ids |-> Identifiers, messages |-> ErrorMessages,
   accounts |-> {None} \cup {Some(a) : a \in AccountInfos},
   times |-> BlockTimes, counts |-> SignatureCounts, amounts |-> Balances,
   txs |-> {None} \cup {Some(t) : t \in Transactions}]

\* A selection of them for the concurrent specification.
FewInputs ==
  [types |-> Types, ids |-> {ProgramExample}, messages |-> {"fetch failed"},
   accounts |-> {None,
                 Some([dataLength |-> 99, executable |-> FALSE, rentEpoch |-> 0]),
                 Some([dataLength |-> 100, executable |-> TRUE, rentEpoch |-> 361])},
   times |-> {None, Some(86400)}, counts |-> {0, 1000}, amounts |-> {0, 1001},
   txs |-> {None,
            Some([instructions |-> Some(6), signatures |-> Some(2),
                  meta |-> None]),
            Some([instructions |-> None, signatures |-> Some(1),
                  meta |-> Some([preBalances |-> <<>>, postBalances |-> <<101>>,
                                 err |-> TRUE,
                                 logMessages |-> Some(<<<<"custom", "error">>>>)])])}]

\* A step of invocation p: it starts, or the collaborator settles the request
\* p is suspended at, with any of the responses of in.
Step(p, in) ==
  \/ pc[p] = "idle" /\ \E t \in in.types, id \in in.ids : Audit(p, t, id)
  \/ /\ pc[p] = "getAccountInfo"
     /\ \E info \in in.accounts : AccountInfoReturns(p, info)
  \/ /\ pc[p] = "getAccountInfo"
     /\ \E m \in in.messages : AccountInfoThrows(p, m)
  \/ SlotReturns(p)
  \/ pc[p] = "getBlockTime" /\ \E bt \in in.times : BlockTimeReturns(p, bt)
  \/ /\ pc[p] = "getSignaturesForAddress"
     /\ \E n \in in.counts : SignaturesReturn(p, n)
  \/ pc[p] = "getBalance" /\ \E b \in in.amounts : BalanceReturns(p, b)
  \/ \E m \in in.messages : ProgramCallThrows(p, m)
  \/ /\ pc[p] = "getTransaction"
     /\ \E tx \in in.txs : TransactionReturns(p, tx)
  \/ /\ pc[p] = "getTransaction"
     /\ \E m \in in.messages : TransactionThrows(p, m)

Next == \E p \in Procs : Step(p, AllInputs)

NextConc == \E p \in Procs : Step(p, FewInputs)

\* One audit() call with every collaborator outcome.
Spec == Init /\ [][Next]_vars

\* NumInvocations audit() calls interleaved at their awaits.
SpecConc == InitConc /\ [][NextConc]_vars

(***************************************************************************)
(* Properties.                                                             *)
(***************************************************************************)
Done(p) == pc[p] = "done"
Returned(p) == Val(result[p])
Last(seq) == seq[Len(seq)]
Has(seq, x) == \E i \in 1..Len(seq) : seq[i] = x
Threw(p, call) == \E i \in 1..Len(thrown[p]) : thrown[p][i].call = call
IfSeq(cond, x) == IF cond THEN <<x>> ELSE <<>>
Weight(cond, w) == IF cond THEN w ELSE 0

Fields == {"id", "trustScore", "riskLevel", "riskDesc", "warnings"}

\* C1: audit never fails.  Every started invocation issues at most five
\* collaborator calls; while it is not done it can always take its next step
\* whatever the collaborator answers, and once done it has returned a record
\* with exactly the five fields id, trustScore, riskLevel, riskDesc, warnings
\* whose id is the input identifier.
C1_AuditAlwaysReturns ==
  \A p \in Procs :
    pc[p] # "unused" =>
      /\ Len(calls[p]) <= 5
      /\ IF Done(p)
           THEN /\ IsSome(result[p])
                /\ DOMAIN Returned(p) = Fields
                /\ Returned(p).id = input[p]
           ELSE /\ result[p] = None
                /\ ENABLED Step(p, AllInputs)

C1_Witness ==
  /\ Done(1) /\ Threw(1, "getBalance") /\ Len(calls[1]) = 5
  /\ DOMAIN Returned(1) = Fields

\* C2: the trustScore of every returned result is the decimal text of an
\* integer between 0 and 100.
C2_TrustScoreInRange ==
  \A p \in Procs :
    Done(p) => Returned(p).trustScore \in {toString(n) : n \in 0..100}

FailureWarnings ==
  {prefix \o m : prefix \in {"Error auditing program: ",
                             "Error processing transaction: "},
                 m \in ErrorMessages}

\* C3: whenever a collaborator call of an audit threw, the cumulative score
\* is exactly 10, the last warning describes that failure, and the result is
\* High Risk with trustScore "0".
C3_FailureEscalated ==
  \A p \in Procs :
    Done(p) /\ thrown[p] # <<>> =>
      /\ Here(p).riskScore = 10
      /\ Returned(p).warnings # <<>>
      /\ Last(Returned(p).warnings) \in FailureWarnings
      /\ Returned(p).riskLevel = "High Risk"
      /\ Returned(p).trustScore = "0"

\* The account (transaction) fetch of p resolved with null.
Absent(p) ==
  /\ Done(p) /\ thrown[p] = <<>> /\ calls[p] # <<>>
  /\ \/ type[p] = "program" /\ programInfo[p] = None
     \/ type[p] = "transaction" /\ transaction[p] = None

\* C4: when the account or transaction fetch returns absent, the score is
\* exactly 10, the only warning is the not-found warning, and the fetch is
\* the only collaborator call of the audit.
C4_ExistenceShortCircuit ==
  \A p \in Procs :
    Absent(p) =>
      /\ Here(p).riskScore = 10
      /\ Returned(p).trustScore = "0"
      /\ Returned(p).warnings =
           IF type[p] = "program" THEN <<"Program not found">>
                                  ELSE <<"Transaction not found">>
      /\ calls[p] =
           IF type[p] = "program" THEN <<"getAccountInfo">>
                                  ELSE <<"getTransaction">>

C4_Witness ==
  /\ Absent(1) /\ type[1] = "program"
  /\ Returned(1).warnings = <<"Program not found">>

\* The clock data of an existing program was unavailable to p.
ClockUnavailable(p) ==
  /\ Done(p) /\ type[p] = "program" /\ IsSome(programInfo[p])
  /\ \/ Threw(p, "getSlot")
     \/ Threw(p, "getBlockTime")
     \/ /\ Has(calls[p], "getSignaturesForAddress")
        /\ blockTime[p] = None

\* C5: when the clock data is unavailable, the age rule contributes no
\* warning, the balance is still fetched and evaluated, and the audit is not
\* escalated.
C5_ClockSkipped ==
  \A p \in Procs :
    ClockUnavailable(p) /\ ~Threw(p, "getSignaturesForAddress")
                        /\ ~Threw(p, "getBalance") =>
      /\ ~Has(Returned(p).warnings, "Very recent program")
      /\ Has(calls[p], "getBalance")
      /\ Returned(p).warnings = <<>>
           \/ Last(Returned(p).warnings) \notin FailureWarnings

\* The evidence of a found transaction; an absent meta carries no balances,
\* no error and no logs.
Pre(tx) == IF IsSome(tx.meta) THEN Val(tx.meta).preBalances ELSE <<>>
Post(tx) == IF IsSome(tx.meta) THEN Val(tx.meta).postBalances ELSE <<>>
Logs(tx) ==
  IF IsSome(tx.meta) /\ IsSome(Val(tx.meta).logMessages)
    THEN Val(Val(tx.meta).logMessages)
    ELSE <<>>
ManyInstr(tx) == \E n \in 6..1000 : tx.instructions = Some(n)
MultiSigner(tx) == \E n \in 2..1000 : tx.signatures = Some(n)
Shifted(tx) ==
  \E i \in DOMAIN Post(tx) :
    LET pre == IF i \in DOMAIN Pre(tx) THEN Pre(tx)[i] ELSE 0
        d == Post(tx)[i] - pre
    IN  d > 100 \/ d < -100
Errored(tx) == IsSome(tx.meta) /\ Val(tx.meta).err
Suspicious(tx) ==
  \E i \in DOMAIN Logs(tx), w \in {"error", "failed", "invalid"} :
    w \in {Logs(tx)[i][j] : j \in DOMAIN Logs(tx)[i]}

TxScore(tx) ==
  Weight(ManyInstr(tx), 2) + Weight(MultiSigner(tx), 2)
    + Weight(Shifted(tx), 3) + Weight(Errored(tx), 3)
    + Weight(Suspicious(tx), 2)

TxWarnings(tx) ==
  IfSeq(ManyInstr(tx), "Transaction with many instructions")
    \o IfSeq(MultiSigner(tx), "Transaction with multiple signers")
    \o IfSeq(Shifted(tx), "Transaction with large balance shifts")
    \o IfSeq(Errored(tx), "Transaction simulation failed")
    \o IfSeq(Suspicious(tx), "Suspicious log messages detected")

EpsilonSeconds == 1

Max(a, b) == IF a > b THEN a ELSE b

\* C7: the frequency rule fires exactly when recentSignatureCount divided by
\* max(age in days, epsilon) exceeds 100, and the quotient it compares is
\* never a division by zero, undefined or negative.
C7_FrequencyGuarded ==
  \A p \in Procs :
    type[p] = "program" /\ Has(calls[p], "getBalance") =>
      LET age == ProgramAge(blockTime[p], Val(programInfo[p]))
          txFrequency == TxFrequency(recentSignatures[p], age)
      IN  /\ Has(Here(p).warnings, "High transaction frequency")
               <=> recentSignatures[p] * OneDay
                     > FrequencyLimit * Max(age, EpsilonSeconds)
          /\ txFrequency.kind = "finite"
          /\ txFrequency.num >= 0

\* C8: an invalid subject type is rejected before any collaborator call and
\* is not returned as a High Risk / trustScore "0" result.
C8_InvalidTypeDistinct ==
  \A p \in Procs :
    Done(p) /\ type[p] \notin {"program", "transaction"} =>
      /\ calls[p] = <<>>
      /\ ~(Returned(p).riskLevel = "High Risk" /\ Returned(p).trustScore = "0")

\* The tier table of the score translator.
TierRow(score) ==
  CASE score \in 8..1000 ->
         <<"High Risk", "Careful review strongly recommended.">>
    [] score \in 5..7 -> <<"Moderate Risk", "Further review recommended.">>
    [] score \in 3..4 ->
         <<"Low Risk", "Not many issues, but exercise caution.">>
    [] OTHER -> <<"Very Low Risk", "Seems safe, but always verify.">>

TierRows == {TierRow(score) : score \in {0, 3, 5, 8}}

\* C9: every returned result carries one of the four tier rows, and for an
\* audited subject it is the row of the cumulative score.
C9_TierRows ==
  \A p \in Procs :
    Done(p) =>
      /\ <<Returned(p).riskLevel, Returned(p).riskDesc>> \in TierRows
      /\ type[p] \in {"program", "transaction"} =>
           <<Returned(p).riskLevel, Returned(p).riskDesc>>
             = TierRow(Here(p).riskScore)

\* What invocation p returns when it runs alone and the collaborator gives
\* the answers p has received: the rules applied in order from a fresh score.
AloneProgram(p) ==
  LET info == Val(programInfo[p])
      age == ProgramAge(blockTime[p], info)
      s3 == ExecutableRule(SizeRule(Fresh, info), info)
      s4 == AgeRule(s3, age)
      s5 == FrequencyRule(s4, recentSignatures[p], age)
  IN  IF ~IsSome(programInfo[p])
        THEN NotFound(Fresh, "Program not found")
        ELSE CASE Threw(p, "getSlot") \/ Threw(p, "getBlockTime") ->
                    Escalate(s3, "Error auditing program: ", thrown[p][1].message)
               [] Threw(p, "getSignaturesForAddress") ->
                    Escalate(s4, "Error auditing program: ", thrown[p][1].message)
               [] Threw(p, "getBalance") ->
                    Escalate(s5, "Error auditing program: ", thrown[p][1].message)
               [] OTHER -> BalanceRule(s5, balance[p])

AloneTransaction(p) ==
  IF thrown[p] # <<>>
    THEN Escalate(Fresh, "Error processing transaction: ", thrown[p][1].message)
    ELSE IF ~IsSome(transaction[p])
      THEN NotFound(Fresh, "Transaction not found")
      ELSE [riskScore |-> TxScore(Val(transaction[p])),
            warnings |-> TxWarnings(Val(transaction[p]))]

Alone(p) ==
  CASE type[p] = "program" -> AuditResult(input[p], AloneProgram(p))
    [] type[p] = "transaction" -> AuditResult(input[p], AloneTransaction(p))
    [] OTHER -> AuditFailed(input[p], InvalidType)

\* C10: concurrent audits are independent.  Whatever the interleaving of the
\* invocations at their awaits, each returns the result it returns alone on
\* the collaborator answers it received.
C10_Independent ==
  \A p \in Procs : Done(p) => Returned(p) = Alone(p)

C10_Witness ==
  /\ Done(1) /\ type[1] = "program" /\ Len(calls[1]) = 5
  /\ pc[2] = "getBalance"
  /\ Here(1).riskScore # Here(2).riskScore
  /\ Returned(1) = Alone(1)

====
